---- MODULE Spec2Model ----
(***************************************************************************)
(* KISS-UI: the lifecycle guard (KISS_RUNNING), the named widget store     *)
(* (WIDGET_STORE), show_gui and the operations of the Widget, Destroy and  *)
(* IUPWidget traits, over an abstract IUP toolkit that hands out, frees    *)
(* and reuses handles.                                                     *)
(***************************************************************************)
EXTENDS Integers, FiniteSets, Sequences, TLC

\* ---------------------------------------------------------------- bounds
MaxPtrs == 2
MaxNames == 2

\* ------------------------------------------------------------- constants
NULL == 0
IUP_NOERROR == 0

Ptrs == 1..MaxPtrs
Names == 1..MaxNames

VARIABLES
    KISS_RUNNING,   \* thread-local Cell<bool>
    WIDGET_STORE,   \* thread-local HashMap<String, BaseWidget>: name -> handle
    pc,             \* position of the thread in (or outside) show_gui
    iupOpen,        \* toolkit: IupOpen has succeeded and IupClose has not run
    live,           \* toolkit: the handles currently allocated
    handles,        \* the widget values (Copy) the program holds
    flagSets,       \* writes of true to KISS_RUNNING by the current show_gui call
    flagClears,     \* writes of false to KISS_RUNNING by the current show_gui call
    lastOp          \* the call made by the last step and its outcome

vars == <<KISS_RUNNING, WIDGET_STORE, pc, iupOpen, live, handles,
          flagSets, flagClears, lastOp>>

\* ------------------------------------------------------------ Option<T>
None == [tag |-> "None", ptr |-> NULL]
Some(p) == [tag |-> "Some", ptr |-> p]
Unit == [tag |-> "Unit", ptr |-> NULL]

\* fn kiss_running() -> bool
kiss_running == KISS_RUNNING

\* The positions at which code of the program (top level, the init closure,
\* a callback of the main loop) runs and can call the library.
UserCtx == {"start", "init", "loop", "unwound", "returned"}

\* The call of the toolkit on handle h has defined behaviour.
Valid(h) == iupOpen /\ h \in live

\* The outcomes of a toolkit call on h: it returns, or (undefined behaviour
\* on a closed toolkit or a freed handle) the process may also abort.
Aborts(h) == IF Valid(h) THEN {FALSE} ELSE BOOLEAN

\* The record of a call: op on handle h with name n; whether the flag was
\* set and the handle freed when it was made, whether it panicked, whether
\* it reached the toolkit, the pointer the toolkit returned and the value
\* the call returned.
Op(op, h, n, panicked, toolkit, raw, ret) ==
    [op |-> op, ptr |-> h, name |-> n, running |-> KISS_RUNNING,
     dangling |-> (h # NULL /\ ~Valid(h)), panicked |-> panicked, toolkit |-> toolkit,
     raw |-> raw, ret |-> ret]

\* The record of a call that only passes its handle on to the toolkit: the
\* handle is recorded for store and destroy alone.
PassOp(op, panicked, toolkit, raw, ret) == Op(op, NULL, 0, panicked, toolkit, raw, ret)

\* The record of a toolkit call that ended the process.
Aborted == [op |-> "abort", ptr |-> NULL, name |-> 0, running |-> KISS_RUNNING,
            dangling |-> TRUE, panicked |-> FALSE, toolkit |-> TRUE,
            raw |-> NULL, ret |-> Unit]

NoOp == [op |-> "none", ptr |-> NULL, name |-> 0, running |-> FALSE,
         dangling |-> FALSE, panicked |-> FALSE, toolkit |-> FALSE,
         raw |-> NULL, ret |-> Unit]

\* HashMap::new()
EmptyStore == [n \in {} |-> NULL]

\* Mutant of Insert: the insertion drops the bindings of the other names.
Insert_DropsOthers(m, n, v) == [k \in {n} |-> v]

\* HashMap::insert(name, value): the map afterwards
Insert(m, n, v) == [k \in (DOMAIN m) \cup {n} |-> IF k = n THEN v ELSE m[k]]

\* Mutant of Previous: the insertion never reports the binding it replaces.
Previous_AlwaysNone(m, n) == None

\* HashMap::insert(name, value): the value returned
Previous(m, n) == IF n \in DOMAIN m THEN Some(m[n]) ELSE None

Init ==
    /\ KISS_RUNNING = FALSE
    /\ WIDGET_STORE = EmptyStore
    /\ pc = "start"
    /\ iupOpen = FALSE
    /\ live = {}
    /\ handles = {}
    /\ flagSets = 0
    /\ flagClears = 0
    /\ lastOp = NoOp

\* ------------------------------------------------ impl_widget / IUPWidget

\* unsafe fn from_ptr(ptr): assert!(!ptr.is_null()); $ty(ptr)
from_ptr(ptr) == [panic |-> ptr = NULL, ptr |-> ptr]

\* Mutant of from_ptr_opt: the pointer is wrapped without the null check.
from_ptr_opt_Unchecked(ptr) == Some(ptr)

\* unsafe fn from_ptr_opt(ptr) -> Option<Self>
from_ptr_opt(ptr) == IF ptr # NULL THEN Some(from_ptr(ptr).ptr) ELSE None

\* fn to_base(self) -> BaseWidget
to_base(h) == from_ptr(h)

\* A call that passes self.ptr() to one Iup* function.  pre: the call panics
\* before reaching the toolkit; post: it panics on the toolkit's answer.
IupCall(op, h, pre, post) ==
    /\ pc \in UserCtx
    /\ h \in handles
    /\ IF pre
       THEN /\ lastOp' = PassOp(op, TRUE, FALSE, NULL, Unit)
            /\ pc' = pc
       ELSE \E abort \in Aborts(h) :
            /\ pc' = IF abort THEN "aborted" ELSE pc
            /\ lastOp' = IF abort THEN Aborted ELSE PassOp(op, post, TRUE, NULL, Unit)
    /\ UNCHANGED <<KISS_RUNNING, WIDGET_STORE, iupOpen, live, handles,
                   flagSets, flagClears>>

\* A call that asks the toolkit for a handle and wraps it with from_ptr_opt.
\* On a valid handle the toolkit answers null or a live handle; on a freed
\* handle or a closed toolkit its answer is arbitrary.
IupGetHandle(op, h) ==
    /\ pc \in UserCtx
    /\ h \in handles
    /\ \E abort \in Aborts(h) :
       IF abort
       THEN /\ pc' = "aborted"
            /\ lastOp' = Aborted
            /\ handles' = handles
       ELSE \E raw \in (IF Valid(h) THEN live ELSE Ptrs) \cup {NULL} :
            LET ret == from_ptr_opt(raw) IN
            /\ pc' = pc
            /\ lastOp' = PassOp(op, FALSE, TRUE, raw, ret)
            /\ handles' = handles \cup (IF ret.tag = "Some" THEN {ret.ptr} ELSE {})
    /\ UNCHANGED <<KISS_RUNNING, WIDGET_STORE, iupOpen, live, flagSets, flagClears>>

\* fn set_str_attribute(self, name, val): CString::new(val).unwrap(), IupSetStrAttribute
set_str_attribute(op, h, hasNul) == IupCall(op, h, hasNul, FALSE)

\* fn set_opt_str_attribute(self, name, val: Option<V>)
set_opt_str_attribute(h, isSome, hasNul) ==
    IupCall("set_opt_str_attribute", h, isSome /\ hasNul, FALSE)

\* fn set_const_str_attribute(self, name, val): IupSetAttribute
set_const_str_attribute(op, h) == IupCall(op, h, FALSE, FALSE)

\* fn get_str_attribute(&self, name) -> Option<&str>: IupGetAttribute
get_str_attribute(op, h) == IupCall(op, h, FALSE, FALSE)

\* fn set_int_attribute(self, name, val): IupSetInt
set_int_attribute(h) == IupCall("set_int_attribute", h, FALSE, FALSE)

\* fn get_int_attribute(self, name) -> i32: IupGetInt
get_int_attribute(h) == IupCall("get_int_attribute", h, FALSE, FALSE)

\* fn get_int2_attribute(self, name): assert!(IupGetIntInt(..) != 0)
get_int2_attribute(op, h, count) == IupCall(op, h, FALSE, count = 0)

\* fn set_float_attribute(self, name, val): IupSetFloat
set_float_attribute(h) == IupCall("set_float_attribute", h, FALSE, FALSE)

\* fn get_float_attribute(self, name) -> f32: IupGetFloat
get_float_attribute(h) == IupCall("get_float_attribute", h, FALSE, FALSE)

\* fn set_bool_attribute(self, name, val): bool_yes_no, set_const_str_attribute
set_bool_attribute(op, h) == set_const_str_attribute(op, h)

\* fn set_attr_handle(self, name, handle): IupSetAttributeHandle
set_attr_handle(h, w) == w \in handles /\ IupCall("set_attr_handle", h, FALSE, FALSE)

\* fn get_attr_handle(self, name) -> Option<BaseWidget>
get_attr_handle(h) == IupGetHandle("get_attr_handle", h)

\* fn set_callback(self, name, callback): IupSetCallback
set_callback(h) == IupCall("set_callback", h, FALSE, FALSE)

\* fn classname(&self) -> &CStr: IupGetClassName
classname(h) == IupCall("classname", h, FALSE, FALSE)

\* ------------------------------------------------------------ trait Widget

\* fn show(self) -> Self: IupShow
show(h) == IupCall("show", h, FALSE, FALSE)

\* fn hide(self) -> Self: IupHide
hide(h) == IupCall("hide", h, FALSE, FALSE)

\* fn set_visible(self, visible) -> Self
set_visible(h) == set_bool_attribute("set_visible", h)

\* fn set_enabled(self, enabled) -> Self
set_enabled(h) == set_bool_attribute("set_enabled", h)

\* fn set_position(self, x, y) -> Self: format!("{x},{y}") holds no NUL
set_position(h) == set_str_attribute("set_position", h, FALSE)

\* fn get_position(self) -> (i32, i32)
get_position(h, count) == get_int2_attribute("get_position", h, count)

\* fn set_name(self, name: &str) -> Self
set_name(h, hasNul) == set_str_attribute("set_name", h, hasNul)

\* fn get_name(&self) -> Option<&str>
get_name(h) == get_str_attribute("get_name", h)

\* fn get_sibling(self) -> Option<BaseWidget>: IupGetBrother
get_sibling(h) == IupGetHandle("get_sibling", h)

\* fn get_parent(self) -> Option<BaseWidget>: IupGetParent
get_parent(h) == IupGetHandle("get_parent", h)

\* fn get_dialog(self) -> Option<Dialog>: IupGetDialog
get_dialog(h) == IupGetHandle("get_dialog", h)

\* fn get_size_pixels(self) -> (u32, u32)
get_size_pixels(h, count) == get_int2_attribute("get_size_pixels", h, count)

\* fn store(self, name) -> Option<BaseWidget>:
\*   WIDGET_STORE.borrow_mut().insert(name.into(), self.to_base())
store(h, n) ==
    /\ pc \in UserCtx
    /\ h \in handles
    /\ LET base == to_base(h) IN
       IF base.panic
       THEN /\ lastOp' = Op("store", h, n, TRUE, FALSE, NULL, Unit)
            /\ UNCHANGED WIDGET_STORE
       ELSE /\ WIDGET_STORE' = Insert(WIDGET_STORE, n, base.ptr)
            /\ lastOp' = Op("store", h, n, FALSE, FALSE, NULL,
                            Previous(WIDGET_STORE, n))
    /\ UNCHANGED <<KISS_RUNNING, pc, iupOpen, live, handles, flagSets, flagClears>>

\* trait Destroy, fn destroy(self): IupDestroy(self.ptr()).  The toolkit
\* frees the widget and its children; on a freed handle or a closed toolkit
\* the call is undefined.
destroy(h) ==
    /\ pc \in UserCtx
    /\ h \in handles
    /\ IF Valid(h)
       THEN /\ \E children \in SUBSET (live \ {h}) :
                  live' = live \ ({h} \cup children)
            /\ pc' = pc
            /\ lastOp' = Op("destroy", h, 0, FALSE, TRUE, NULL, Unit)
       ELSE /\ \E abort \in Aborts(h) :
                  /\ pc' = IF abort THEN "aborted" ELSE pc
                  /\ lastOp' = IF abort THEN Aborted
                                ELSE Op("destroy", h, 0, FALSE, TRUE, NULL, Unit)
            /\ live' = live
    /\ UNCHANGED <<KISS_RUNNING, WIDGET_STORE, iupOpen, handles, flagSets, flagClears>>

\* A widget constructor (Button::new, Dialog::new, ...): assert_kiss_running!(),
\* an Iup* constructor, from_ptr on its answer.  The toolkit answers null
\* when it cannot allocate and otherwise any address not in use.
Widget_new ==
    /\ pc \in UserCtx
    /\ IF ~kiss_running
       THEN /\ lastOp' = Op("new", NULL, 0, TRUE, FALSE, NULL, Unit)
            /\ UNCHANGED <<live, handles>>
       ELSE \E raw \in (Ptrs \ live) \cup {NULL} :
            LET w == from_ptr(raw) IN
            IF w.panic
            THEN /\ lastOp' = Op("new", NULL, 0, TRUE, TRUE, raw, Unit)
                 /\ UNCHANGED <<live, handles>>
            ELSE /\ lastOp' = Op("new", NULL, 0, FALSE, TRUE, raw, Some(w.ptr))
                 /\ live' = live \cup {raw}
                 /\ handles' = handles \cup {w.ptr}
    /\ UNCHANGED <<KISS_RUNNING, WIDGET_STORE, pc, iupOpen, flagSets, flagClears>>

\* ---------------------------------------------------------------- show_gui

\* The record of a step of show_gui.
GuiStep(step, panicked, toolkit) == Op(step, NULL, 0, panicked, toolkit, NULL, Unit)

\* IupOpen answers IUP_NOERROR, or another code when it fails or when the
\* toolkit is already open.
IupOpenResults == IF iupOpen THEN {-1} ELSE {IUP_NOERROR, 1}

\* Mutant of show_gui_IupOpen: the flag is set before IupOpen's answer is
\* asserted.
show_gui_IupOpen_FlagFirst ==
    /\ pc \in UserCtx
    /\ KISS_RUNNING' = TRUE
    /\ \E rc \in IupOpenResults :
       IF rc = IUP_NOERROR
       THEN /\ iupOpen' = TRUE
            /\ pc' = "opened"
            /\ flagSets' = 1
            /\ flagClears' = 0
            /\ lastOp' = GuiStep("IupOpen", FALSE, TRUE)
       ELSE /\ lastOp' = GuiStep("IupOpen", TRUE, TRUE)
            /\ flagSets' = flagSets + 1
            /\ UNCHANGED <<iupOpen, pc, flagClears>>
    /\ UNCHANGED <<WIDGET_STORE, live, handles>>

\* assert!(IupOpen(null, null) == 0); IupSetGlobal(UTF8MODE, YES)
show_gui_IupOpen ==
    /\ pc \in UserCtx
    /\ \E rc \in IupOpenResults :
       IF rc = IUP_NOERROR
       THEN /\ iupOpen' = TRUE
            /\ pc' = "opened"
            /\ flagSets' = 0
            /\ flagClears' = 0
            /\ lastOp' = GuiStep("IupOpen", FALSE, TRUE)
       ELSE /\ lastOp' = GuiStep("IupOpen", TRUE, TRUE)
            /\ UNCHANGED <<iupOpen, pc, flagSets, flagClears>>
    /\ UNCHANGED <<KISS_RUNNING, WIDGET_STORE, live, handles>>

\* KISS_RUNNING.with(|state| state.set(true))
show_gui_SetRunning ==
    /\ pc = "opened"
    /\ KISS_RUNNING' = TRUE
    /\ flagSets' = flagSets + 1
    /\ pc' = "init"
    /\ lastOp' = GuiStep("set_running", FALSE, FALSE)
    /\ UNCHANGED <<WIDGET_STORE, iupOpen, live, handles, flagClears>>

\* init_fn().show(): the closure returns its dialog d, IupShow(d), and the
\* thread enters IupMainLoop.
show_gui_InitShow(d) ==
    /\ pc = "init"
    /\ d \in handles
    /\ \E abort \in Aborts(d) :
          /\ pc' = IF abort THEN "aborted" ELSE "loop"
          /\ lastOp' = IF abort THEN Aborted ELSE GuiStep("init_fn", FALSE, TRUE)
    /\ UNCHANGED <<KISS_RUNNING, WIDGET_STORE, iupOpen, live, handles,
                   flagSets, flagClears>>

\* init_fn() panics: show_gui unwinds, and a caller that catches the panic
\* goes on.
show_gui_InitPanic ==
    /\ pc = "init"
    /\ pc' = "unwound"
    /\ lastOp' = GuiStep("init_fn", TRUE, FALSE)
    /\ UNCHANGED <<KISS_RUNNING, WIDGET_STORE, iupOpen, live, handles,
                   flagSets, flagClears>>

\* IupMainLoop() returns: every dialog is closed.
show_gui_MainLoopReturns ==
    /\ pc = "loop"
    /\ pc' = "mainloop_returned"
    /\ lastOp' = GuiStep("IupMainLoop", FALSE, TRUE)
    /\ UNCHANGED <<KISS_RUNNING, WIDGET_STORE, iupOpen, live, handles,
                   flagSets, flagClears>>

\* IupClose(): the toolkit frees every handle.
show_gui_IupClose ==
    /\ pc = "mainloop_returned"
    /\ iupOpen' = FALSE
    /\ live' = {}
    /\ pc' = "closed"
    /\ lastOp' = GuiStep("IupClose", FALSE, TRUE)
    /\ UNCHANGED <<KISS_RUNNING, WIDGET_STORE, handles, flagSets, flagClears>>

\* KISS_RUNNING.with(|state| state.set(false))
show_gui_ClearRunning ==
    /\ pc = "closed"
    /\ KISS_RUNNING' = FALSE
    /\ flagClears' = flagClears + 1
    /\ pc' = "cleared"
    /\ lastOp' = GuiStep("clear_running", FALSE, FALSE)
    /\ UNCHANGED <<WIDGET_STORE, iupOpen, live, handles, flagSets>>

\* WIDGET_STORE.with(|store| *store.borrow_mut() = HashMap::new()); return
show_gui_EvictStore ==
    /\ pc = "cleared"
    /\ WIDGET_STORE' = EmptyStore
    /\ pc' = "returned"
    /\ lastOp' = GuiStep("evict_store", FALSE, FALSE)
    /\ UNCHANGED <<KISS_RUNNING, iupOpen, live, handles, flagSets, flagClears>>

\* The answers of IupGetIntInt: the number of values it read.
IntIntCounts == {0, 2}

\* -------------------------------------------------------------------- Next
Next ==
    \/ show_gui_IupOpen
    \/ show_gui_SetRunning
    \/ \E d \in Ptrs : show_gui_InitShow(d)
    \/ show_gui_InitPanic
    \/ show_gui_MainLoopReturns
    \/ show_gui_IupClose
    \/ show_gui_ClearRunning
    \/ show_gui_EvictStore
    \/ Widget_new
    \/ \E h \in Ptrs : show(h)
    \/ \E h \in Ptrs : hide(h)
    \/ \E h \in Ptrs : set_visible(h)
    \/ \E h \in Ptrs : set_enabled(h)
    \/ \E h \in Ptrs : set_position(h)
    \/ \E h \in Ptrs, count \in IntIntCounts : get_position(h, count)
    \/ \E h \in Ptrs, hasNul \in BOOLEAN : set_name(h, hasNul)
    \/ \E h \in Ptrs : get_name(h)
    \/ \E h \in Ptrs : get_sibling(h)
    \/ \E h \in Ptrs : get_parent(h)
    \/ \E h \in Ptrs : get_dialog(h)
    \/ \E h \in Ptrs, count \in IntIntCounts : get_size_pixels(h, count)
    \/ \E h \in Ptrs, n \in Names : store(h, n)
    \/ \E h \in Ptrs : destroy(h)
    \/ \E h \in Ptrs, hasNul \in BOOLEAN : set_str_attribute("set_str_attribute", h, hasNul)
    \/ \E h \in Ptrs, val \in {<<FALSE, FALSE>>, <<TRUE, FALSE>>, <<TRUE, TRUE>>} :
          set_opt_str_attribute(h, val[1], val[2])
    \/ \E h \in Ptrs : set_const_str_attribute("set_const_str_attribute", h)
    \/ \E h \in Ptrs : get_str_attribute("get_str_attribute", h)
    \/ \E h \in Ptrs : set_int_attribute(h)
    \/ \E h \in Ptrs : get_int_attribute(h)
    \/ \E h \in Ptrs, count \in IntIntCounts : get_int2_attribute("get_int2_attribute", h, count)
    \/ \E h \in Ptrs : set_float_attribute(h)
    \/ \E h \in Ptrs : get_float_attribute(h)
    \/ \E h \in Ptrs : set_bool_attribute("set_bool_attribute", h)
    \/ \E h \in Ptrs, w \in Ptrs : set_attr_handle(h, w)
    \/ \E h \in Ptrs : get_attr_handle(h)
    \/ \E h \in Ptrs : set_callback(h)
    \/ \E h \in Ptrs : classname(h)

Spec == Init /\ [][Next]_vars

\* ==================================================================== claims

\* The labels of the operations of Widget, Destroy and IUPWidget.
WidgetOps ==
    {"show", "hide", "set_visible", "set_enabled", "set_position", "get_position",
     "set_name", "get_name", "get_sibling", "get_parent", "get_dialog",
     "get_size_pixels", "store", "destroy", "set_str_attribute",
     "set_opt_str_attribute", "set_const_str_attribute", "get_str_attribute",
     "set_int_attribute", "get_int_attribute", "get_int2_attribute",
     "set_float_attribute", "get_float_attribute", "set_bool_attribute",
     "set_attr_handle", "get_attr_handle", "set_callback", "classname"}

\* The labels of the operations that wrap a handle returned by the toolkit.
HandleGetters == {"get_sibling", "get_parent", "get_dialog", "get_attr_handle"}

\* C1: a widget operation called while the running flag is false panics,
\* does not reach the toolkit and does not change the named widget store
\* (a store that does not panic inserts its binding).
C1_OutsideWindowPanics ==
    (lastOp.op \in WidgetOps /\ ~lastOp.running) =>
        (lastOp.panicked /\ ~lastOp.toolkit)

\* C2: inside a lifecycle window (the flag is true before and after the
\* step), a store under n binds n to the handle stored, and every other
\* step, a store under another name included, leaves the binding of n as it
\* was: a later lookup of n yields the handle last stored under n.
C2_StoreLoadRoundTrip ==
    [][(KISS_RUNNING /\ KISS_RUNNING') =>
        \A n \in Names :
            IF lastOp'.op = "store" /\ lastOp'.name = n
            THEN n \in DOMAIN WIDGET_STORE' /\ WIDGET_STORE'[n] = lastOp'.ptr
            ELSE n \in DOMAIN WIDGET_STORE =>
                    (n \in DOMAIN WIDGET_STORE' /\ WIDGET_STORE'[n] = WIDGET_STORE[n])]_vars

\* C2 witness: inside a window a store under name 2 has just been made
\* while name 1 is still bound to another handle stored before it.
C2_Witness ==
    /\ KISS_RUNNING
    /\ lastOp.op = "store" /\ lastOp.name = 2
    /\ 1 \in DOMAIN WIDGET_STORE
    /\ WIDGET_STORE[1] # WIDGET_STORE[2]

\* C3: store(n) on w returns Some(the handle n was bound to), or None when n
\* was unbound, binds n to w, and leaves every other name as it was.
C3_StoreReturnsPrevious ==
    [][lastOp'.op = "store" =>
        LET n == lastOp'.name
            w == lastOp'.ptr
        IN  /\ lastOp'.ret = (IF n \in DOMAIN WIDGET_STORE
                              THEN Some(WIDGET_STORE[n]) ELSE None)
            /\ n \in DOMAIN WIDGET_STORE'
            /\ WIDGET_STORE'[n] = w
            /\ \A m \in Names \ {n} :
                  /\ (m \in DOMAIN WIDGET_STORE') = (m \in DOMAIN WIDGET_STORE)
                  /\ m \in DOMAIN WIDGET_STORE => WIDGET_STORE'[m] = WIDGET_STORE[m]]_vars

\* C3 witness: a store has replaced another widget's binding and returned
\* it, while a second name is bound.
C3_Witness ==
    /\ lastOp.op = "store"
    /\ lastOp.ret.tag = "Some"
    /\ lastOp.ret.ptr # lastOp.ptr
    /\ WIDGET_STORE[lastOp.name] = lastOp.ptr
    /\ DOMAIN WIDGET_STORE = Names

\* C4: in every state where show_gui has returned and no new call has
\* started, the named widget store has no entries.
C4_StoreEmptyAfterExit == pc = "returned" => DOMAIN WIDGET_STORE = {}

\* C6 (steps): the flag goes from false to true only in the step after the
\* successful IupOpen that starts the init closure, from true to false only
\* in the step after IupClose, and a failing IupOpen leaves it as it was.
C6_FlagSteps ==
    /\ (~KISS_RUNNING /\ KISS_RUNNING') => (pc = "opened" /\ pc' = "init" /\ iupOpen)
    /\ (KISS_RUNNING /\ ~KISS_RUNNING') => (pc = "closed" /\ pc' = "cleared" /\ ~iupOpen)
    /\ (lastOp'.op = "IupOpen" /\ lastOp'.panicked) =>
            (KISS_RUNNING' = KISS_RUNNING /\ flagSets' = flagSets)

\* C6 (states): the init closure and the main loop run with the flag set
\* once and not yet cleared (an init closure that panics leaves it so), and
\* a call that has returned has set it once and cleared it once.
C6_FlagCounts ==
    /\ pc = "start" => (~KISS_RUNNING /\ flagSets = 0 /\ flagClears = 0)
    /\ pc \in {"init", "loop", "unwound"} =>
            (KISS_RUNNING /\ flagSets = 1 /\ flagClears = 0)
    /\ pc = "opened" => (~KISS_RUNNING /\ flagSets = 0 /\ flagClears = 0)
    /\ pc \in {"mainloop_returned", "closed"} =>
            (KISS_RUNNING /\ flagSets = 1 /\ flagClears = 0)
    /\ pc \in {"cleared", "returned"} =>
            (~KISS_RUNNING /\ flagSets = 1 /\ flagClears = 1)

C7_DestroyTwiceSafe ==
    (lastOp.op = "destroy" /\ lastOp.running /\ lastOp.dangling) =>
        (~lastOp.toolkit /\ pc # "aborted")

\* C8: no widget value wraps null: from_ptr_opt, and so every getter of a
\* handle, returns None for null and Some of exactly the pointer otherwise;
\* a constructor given null panics and returns nothing; no handle the
\* program holds or the store binds is null.
C8_NoNullWidget ==
    /\ NULL \notin handles
    /\ \A n \in DOMAIN WIDGET_STORE : WIDGET_STORE[n] # NULL
    /\ lastOp.op \in HandleGetters =>
            lastOp.ret = (IF lastOp.raw = NULL THEN None ELSE Some(lastOp.raw))
    /\ (lastOp.op = "new" /\ lastOp.toolkit /\ lastOp.raw = NULL) =>
            (lastOp.panicked /\ lastOp.ret = Unit)
    /\ lastOp.ret.tag = "Some" => lastOp.ret.ptr # NULL

\* C8 witness: the toolkit has answered a getter with null, the getter has
\* returned None, and the store holds a binding.
C8_Witness ==
    /\ lastOp.op \in HandleGetters
    /\ lastOp.raw = NULL
    /\ lastOp.ret = None
    /\ DOMAIN WIDGET_STORE # {}

\* C9: whenever the running flag is true the toolkit is open.
C9_FlagImpliesOpen == KISS_RUNNING => iupOpen

\* C10: every handle in the named widget store is a live handle of an open
\* toolkit.
C10_NoDanglingInStore ==
    \A n \in DOMAIN WIDGET_STORE : iupOpen /\ WIDGET_STORE[n] \in live

====
